---- MODULE Spec2Model ----
(***************************************************************************)
(* Auto-Analyst: column-type inference, profiling, task detection and      *)
(* feature-role resolution, modelled from backend/app.                     *)
(*                                                                         *)
(* A cell value is a record [k, i, f, len, date]:                          *)
(*   k = "null"  a missing cell (NaN)                                      *)
(*   k = "num"   the finite number i + f * 1e-9 (i >= 0) or                *)
(*               i - f * 1e-9 (i < 0); i is its truncation toward zero     *)
(*   k = "bool"  True (i = 1) or False (i = 0)                             *)
(*   k = "str"   a non-numeric string: i identifies it (and is its         *)
(*               timestamp when it parses as a date), len is its length,   *)
(*               date says whether pd.to_datetime parses it                *)
(* A column (pandas Series) is [dtype, vals]; a table (DataFrame) is a     *)
(* sequence of [name, col] in column order.                                *)
(***************************************************************************)
EXTENDS Integers, Sequences, FiniteSets, TLC

VARIABLES
    y,            \* detect_task_type: the target column
    task_type,    \* detect_task_type: its result
    s,            \* infer_column_type / summaries: the column
    inferred,     \* infer_column_type: its result
    num_result,   \* numeric_summary: its result
    cat_result,   \* categorical_summary: its result
    df,           \* profile_dataset / build_preprocessor: the table
    overrides,    \* the caller's overrides: column name -> type
    profile,      \* profile_dataset: its result
    dropped,      \* names of the columns dropped from df so far
    target_col,   \* build_preprocessor: the target column name
    prep,         \* build_preprocessor: its result
    DATASETS,     \* main.py: the registry, dataset id -> meta
    files,        \* DATA_DIR: dataset id -> the uploaded file
    req,          \* the ModelingRequest last handled (or to be handled)
    env,          \* what the library calls of that run give
    response,     \* the last HTTP response
    last_ok,      \* per dataset, the body of its last 200 modeling response
    eda           \* _compute_eda: per request in flight, its position and locals

api_vars == <<DATASETS, files, req, env, response, last_ok, eda>>

vars == <<y, task_type, s, inferred, num_result, cat_result, df, overrides,
          profile, dropped, target_col, prep, DATASETS, files, req, env,
          response, last_ok, eda>>

----------------------------------------------------------------------------
(* Bounds of the model *)

\* longest freely enumerated column
MaxLen == 3
\* how far the generated columns range past each threshold of the code
Slack == 1
\* the scores a candidate can get are 0 .. MaxScore, in units of 1 / MaxScore
MaxScore == 2

----------------------------------------------------------------------------
(* Program constants *)

\* unique_vals <= 20 (task_detection.py) and unique <= 20 (profiler.py)
MaxClassUnique == 20
MaxCatUnique == 20
\* .head(50)
SampleSize == 50
\* categorical_summary(s, top_n=10)
TopN == 10
\* np.allclose defaults, in units of 1e-9: atol = 1e-8, rtol = 1e-5
AtolNano == 10
RtolNano == 10000
\* best_score = -1e9 (modeling.py)
NoBestScore == -1000000000

----------------------------------------------------------------------------
(* Values *)

Null == [k |-> "null", i |-> 0, f |-> 0, len |-> 0, date |-> FALSE]
Num(i, f) == [k |-> "num", i |-> i, f |-> f, len |-> 0, date |-> FALSE]
Bool(b) == [k |-> "bool", i |-> IF b THEN 1 ELSE 0, f |-> 0, len |-> 0, date |-> FALSE]
Str(id, len, date) == [k |-> "str", i |-> id, f |-> 0, len |-> len, date |-> date]

isna(v) == v.k = "null"

SeqsUpTo(S, n) == UNION {[1..m -> S] : m \in 0..n}

Range(q) == {q[j] : j \in DOMAIN q}

\* the non-null elements of q, in order (by halves, to keep the evaluation
\* shallow on long columns)
RECURSIVE DropNulls(_)
DropNulls(q) ==
    IF q = <<>> THEN <<>>
    ELSE IF Len(q) = 1 THEN (IF isna(q[1]) THEN <<>> ELSE q)
    ELSE LET h == Len(q) \div 2 IN
         DropNulls(SubSeq(q, 1, h)) \o DropNulls(SubSeq(q, h + 1, Len(q)))

Abs(n) == IF n < 0 THEN -n ELSE n

----------------------------------------------------------------------------
(* Columns as pd.read_csv delivers them *)

NonNull(vals) == {vals[j] : j \in {m \in DOMAIN vals : ~isna(vals[m])}}

\* the dtype pd.read_csv infers for a column of parsed cells
ReadCsvDtype(vals) ==
    LET nn == NonNull(vals)
        hasNull == \E j \in DOMAIN vals : isna(vals[j])
    IN  IF vals = <<>> THEN "object"
        ELSE IF nn = {} THEN "float64"
        ELSE IF \A v \in nn : v.k = "bool"
             THEN IF hasNull THEN "object" ELSE "bool"
        ELSE IF \A v \in nn : v.k = "num"
             THEN IF hasNull \/ \E v \in nn : v.f # 0 THEN "float64" ELSE "int64"
        ELSE "object"

Series(vals) == [dtype |-> ReadCsvDtype(vals), vals |-> vals]

NoSeries == [dtype |-> "none", vals |-> <<>>]

is_bool_dtype(c) == c.dtype = "bool"
is_datetime64_any_dtype(c) == c.dtype = "datetime64"
is_object_dtype(c) == c.dtype = "object"
is_categorical_dtype(c) == c.dtype = "category"
is_numeric_dtype(c) == c.dtype \in {"int64", "float64", "bool"}

\* Series.dropna(): the non-null values in order, the dtype kept
dropna(c) == [dtype |-> c.dtype, vals |-> DropNulls(c.vals)]

\* Series.nunique(dropna=True)
nunique(c) == Cardinality(NonNull(c.vals))

\* Series.isna().sum()
isna_sum(c) == Cardinality({j \in DOMAIN c.vals : isna(c.vals[j])})

----------------------------------------------------------------------------
(* ml/task_detection.py *)

\* v is within np.allclose's default tolerance of v.astype(int):
\* |v - trunc(v)| <= atol + rtol * |trunc(v)|
IsCloseToInt(v) == v.f <= AtolNano + RtolNano * Abs(v.i)

\* np.allclose(s, s.astype(int), equal_nan=True) on a null-free column
allclose_astype_int(c) == \A j \in DOMAIN c.vals : IsCloseToInt(c.vals[j])

\* detect_task_type without the unique_ratio < 0.5 condition
detect_task_type_NoRatio(yy) ==
    LET sd == dropna(yy) IN
    IF sd.vals = <<>> THEN "regression"
    ELSE IF is_numeric_dtype(sd) THEN
        IF allclose_astype_int(sd) /\ nunique(sd) <= MaxClassUnique
        THEN "classification" ELSE "regression"
    ELSE "classification"

detect_task_type(yy) ==
    LET sd == dropna(yy) IN
    IF sd.vals = <<>> THEN "regression"
    ELSE IF is_numeric_dtype(sd) THEN
        LET unique_vals == nunique(sd)
            n == Len(sd.vals)
            all_int_like == allclose_astype_int(sd)
        IN  \* unique_ratio = unique_vals / n < 0.5
            IF all_int_like /\ unique_vals <= MaxClassUnique /\ 2 * unique_vals < n
            THEN "classification" ELSE "regression"
    ELSE "classification"

----------------------------------------------------------------------------
(* eda/profiler.py: infer_column_type *)

\* str(v) for the cells an object column holds: strings and booleans
\* ("True" and "False" are no dates)
AsStr(v) ==
    CASE v.k = "str" -> v
      [] v.k = "bool" -> IF v.i = 1 THEN Str(-1, 4, FALSE) ELSE Str(0, 5, FALSE)

\* Series.astype(str) of a null-free column
astype_str(c) == [dtype |-> "object", vals |-> [j \in DOMAIN c.vals |-> AsStr(c.vals[j])]]

\* Series.head(n)
head(c, n) ==
    [dtype |-> c.dtype,
     vals |-> SubSeq(c.vals, 1, IF Len(c.vals) < n THEN Len(c.vals) ELSE n)]

\* the loop over the sample: pd.to_datetime(val) succeeds or raises, and a
\* raise only skips the increment
date_parse_success(sample) ==
    Cardinality({j \in DOMAIN sample.vals : sample.vals[j].date})

\* the datetime rule with >= 0.7 in place of > 0.7
parses_as_dates_AtLeast(c) ==
    LET sample == head(astype_str(dropna(c)), SampleSize) IN
    /\ Len(sample.vals) > 0
    /\ 10 * date_parse_success(sample) >= 7 * Len(sample.vals)

\* len(sample) > 0 and date_parse_success / len(sample) > 0.7
parses_as_dates(c) ==
    LET sample == head(astype_str(dropna(c)), SampleSize) IN
    /\ Len(sample.vals) > 0
    /\ 10 * date_parse_success(sample) > 7 * Len(sample.vals)

\* the numeric rule with the id test after the categorical test
numeric_type_CatFirst(c) ==
    LET unique == nunique(dropna(c))
        n == Len(dropna(c).vals)
        ratio_gt == IF n > 0 THEN 10 * unique > 9 * n ELSE FALSE
    IN  IF unique <= MaxCatUnique THEN "categorical"
        ELSE IF unique > 0 /\ ratio_gt THEN "id"
        ELSE "numeric"

\* the numeric branch; ratio_gt is unique_ratio > 0.9, where
\* unique_ratio = unique / n if n > 0 else 0.0
numeric_type(c) ==
    LET unique == nunique(dropna(c))
        n == Len(dropna(c).vals)
        ratio_gt == IF n > 0 THEN 10 * unique > 9 * n ELSE FALSE
    IN  IF unique > 0 /\ ratio_gt THEN "id"
        ELSE IF unique <= MaxCatUnique THEN "categorical"
        ELSE "numeric"

\* the total length of the strings of q
RECURSIVE SumLen(_)
SumLen(q) ==
    IF q = <<>> THEN 0
    ELSE IF Len(q) = 1 THEN q[1].len
    ELSE LET h == Len(q) \div 2 IN
         SumLen(SubSeq(q, 1, h)) + SumLen(SubSeq(q, h + 1, Len(q)))

\* the categorical / object branch: avg_len > 30 and unique_ratio > 0.5
string_type(c) ==
    LET sample == astype_str(dropna(c)) IN
    IF sample.vals = <<>> THEN "categorical"
    ELSE LET n == Len(sample.vals)
             unique == Cardinality(Range(sample.vals))
         IN  IF SumLen(sample.vals) > 30 * n /\ 2 * unique > n THEN "text"
             ELSE "categorical"

\* infer_column_type with the boolean test moved behind the numeric rule
infer_column_type_BoolLate(c) ==
    IF is_datetime64_any_dtype(c) THEN "datetime"
    ELSE IF is_object_dtype(c) /\ parses_as_dates(c) THEN "datetime"
    ELSE IF is_numeric_dtype(c) THEN numeric_type(c)
    ELSE IF is_bool_dtype(c) THEN "boolean"
    ELSE IF is_categorical_dtype(c) \/ is_object_dtype(c) THEN string_type(c)
    ELSE "unknown"

infer_column_type(c) ==
    IF is_bool_dtype(c) THEN "boolean"
    ELSE IF is_datetime64_any_dtype(c) THEN "datetime"
    ELSE IF is_object_dtype(c) /\ parses_as_dates(c) THEN "datetime"
    ELSE IF is_numeric_dtype(c) THEN numeric_type(c)
    ELSE IF is_categorical_dtype(c) \/ is_object_dtype(c) THEN string_type(c)
    ELSE "unknown"

----------------------------------------------------------------------------
(* eda/profiler.py: numeric_summary *)
(* Numbers of a summary are records [nan, v]: nan is the not-a-number      *)
(* sentinel, v the value in quarters (4 * value), exact for the            *)
(* integer-valued cells the summaries are computed on.  mean and std are   *)
(* not modelled.                                                           *)

NaN == [nan |-> TRUE, v |-> 0]
Quarters(v) == [nan |-> FALSE, v |-> v]

\* pd.to_numeric(s, errors="coerce"): numeric columns are kept; in an object
\* column a boolean becomes 1.0 / 0.0 and a string that is no number, NaN
to_numeric(c) ==
    IF is_numeric_dtype(c) THEN c
    ELSE [dtype |-> "float64",
          vals |-> [j \in DOMAIN c.vals |->
                      IF c.vals[j].k = "bool" THEN Num(c.vals[j].i, 0) ELSE Null]]

\* the r-th smallest of the non-null values
KthSmallest(c, r) ==
    LET q == dropna(c).vals
        xs == {q[j].i : j \in DOMAIN q}
    IN  CHOOSE v \in xs :
            /\ Cardinality({j \in DOMAIN q : q[j].i < v}) < r
            /\ r <= Cardinality({j \in DOMAIN q : q[j].i <= v})

\* describe()'s percentile p/4 by linear interpolation, in quarters; NaN for
\* an empty column and absent from the description of a boolean column
Percentile(c, p) ==
    LET n == Len(dropna(c).vals) IN
    IF n = 0 \/ is_bool_dtype(c) THEN NaN
    ELSE LET lo == ((n - 1) * p) \div 4
             fr == ((n - 1) * p) % 4
         IN  IF fr = 0 THEN Quarters(4 * KthSmallest(c, lo + 1))
             ELSE LET a == KthSmallest(c, lo + 1)
                      b == KthSmallest(c, lo + 2)
                  IN  Quarters(4 * a + fr * (b - a))

\* the outlier count with the fences included
CountOutliers_Inclusive(c, q1, q3) ==
    LET iqr == q3.v - q1.v
        lower8 == 2 * q1.v - 3 * iqr
        upper8 == 2 * q3.v + 3 * iqr
    IN  Cardinality({j \in DOMAIN c.vals :
            /\ ~isna(c.vals[j])
            /\ (8 * c.vals[j].i <= lower8 \/ 8 * c.vals[j].i >= upper8)})

\* ((s < lower) | (s > upper)).sum(), the fences in eighths
CountOutliers(c, q1, q3) ==
    LET iqr == q3.v - q1.v
        lower8 == 2 * q1.v - 3 * iqr
        upper8 == 2 * q3.v + 3 * iqr
    IN  Cardinality({j \in DOMAIN c.vals :
            /\ ~isna(c.vals[j])
            /\ (8 * c.vals[j].i < lower8 \/ 8 * c.vals[j].i > upper8)})

\* the branch on np.isnan(q1), np.isnan(q3)
IqrAndOutliers(c, q1, q3) ==
    IF ~q1.nan /\ ~q3.nan
    THEN [iqr |-> Quarters(q3.v - q1.v), outlier_count |-> CountOutliers(c, q1, q3)]
    ELSE [iqr |-> NaN, outlier_count |-> 0]

numeric_summary(c) ==
    LET q1 == Percentile(c, 1)
        q3 == Percentile(c, 3)
        io == IqrAndOutliers(c, q1, q3)
    IN  [status |-> "done",
         count |-> Len(dropna(c).vals),
         min |-> Percentile(c, 0),
         q1 |-> q1,
         median |-> Percentile(c, 2),
         q3 |-> q3,
         max |-> Percentile(c, 4),
         iqr |-> io.iqr,
         outlier_count |-> io.outlier_count]

----------------------------------------------------------------------------
(* eda/profiler.py: categorical_summary *)

\* the label of an index value after .astype(str)
IndexStr(v) ==
    IF v.k = "num" THEN [k |-> "str", i |-> v.i, f |-> v.f, len |-> 0, date |-> FALSE]
    ELSE AsStr(v)

\* how often v occurs in the column
CountOf(c, v) == Cardinality({j \in DOMAIN c.vals : c.vals[j] = v})

\* value_counts(dropna=True) sorts the distinct values by descending count
\* with an unstable sort: every order of non-increasing count can come out
RECURSIVE CountOrders(_, _)
CountOrders(cnt, S) ==
    IF S = {} THEN {<<>>}
    ELSE LET top == {v \in S : \A w \in S : cnt[w] <= cnt[v]}
         IN  UNION {{<<v>> \o rest : rest \in CountOrders(cnt, S \ {v})} : v \in top}

value_counts(c) ==
    CountOrders([v \in NonNull(c.vals) |-> CountOf(c, v)], NonNull(c.vals))

\* the summaries without .head(top_n)
categorical_summaries_NoHead(c) ==
    {[status |-> "done",
      top_values |-> [j \in DOMAIN vc |-> IndexStr(vc[j])],
      top_counts |-> [j \in DOMAIN vc |-> CountOf(c, vc[j])],
      unique |-> nunique(c)] : vc \in value_counts(c)}

\* the summaries categorical_summary(s) can return, one per sort outcome
categorical_summaries(c) ==
    {LET vc == head([dtype |-> c.dtype, vals |-> order], TopN).vals IN
     [status |-> "done",
      top_values |-> [j \in DOMAIN vc |-> IndexStr(vc[j])],
      top_counts |-> [j \in DOMAIN vc |-> CountOf(c, vc[j])],
      unique |-> nunique(c)] : order \in value_counts(c)}

----------------------------------------------------------------------------
(* eda/profiler.py: profile_dataset *)
(* A table is [n_rows, cols], cols a sequence of [name, col] in column     *)
(* order.  A dict is a sequence of [key, value] in insertion order.        *)

ColumnTypes == {"numeric", "categorical", "datetime", "id", "text", "boolean"}

\* overrides.get(col) if overrides else None
override_of(ov, col) == IF col \in DOMAIN ov THEN ov[col] ELSE "None"

\* Python truth of an override: None and the empty string are false
Truthy(x) == x \notin {"None", ""}

\* min / max of pd.to_datetime(s, errors="coerce"): a date string and a
\* number give a timestamp, everything else NaT; None when nothing parses
datetime_summary(c) ==
    LET ts == {c.vals[j].i : j \in {m \in DOMAIN c.vals :
                   \/ c.vals[m].k = "num"
                   \/ (c.vals[m].k = "str" /\ c.vals[m].date)}}
    IN  IF ts = {} THEN [min |-> [none |-> TRUE, ts |-> 0], max |-> [none |-> TRUE, ts |-> 0]]
        ELSE [min |-> [none |-> FALSE, ts |-> CHOOSE a \in ts : \A b \in ts : a <= b],
              max |-> [none |-> FALSE, ts |-> CHOOSE a \in ts : \A b \in ts : b <= a]]

\* the summaries with the categorical branch taken for "categorical" only
summaries_of_NoBoolean(c, col_type) ==
    IF col_type = "numeric"
    THEN {[x \in {"numeric_summary"} |-> numeric_summary(to_numeric(c))]}
    ELSE IF col_type = "categorical"
    THEN {[x \in {"categorical_summary"} |-> cs] : cs \in categorical_summaries(c)}
    ELSE IF col_type = "datetime"
    THEN {[x \in {"datetime_summary"} |-> datetime_summary(c)]}
    ELSE {<<>>}

\* the summaries put into col_info for col_type: at most one key
summaries_of(c, col_type) ==
    IF col_type = "numeric"
    THEN {[x \in {"numeric_summary"} |-> numeric_summary(to_numeric(c))]}
    ELSE IF col_type \in {"categorical", "boolean"}
    THEN {[x \in {"categorical_summary"} |-> cs] : cs \in categorical_summaries(c)}
    ELSE IF col_type = "datetime"
    THEN {[x \in {"datetime_summary"} |-> datetime_summary(c)]}
    ELSE {<<>>}

\* the inferred type taking precedence over the override
effective_type_InferredFirst(override, inferred_t) ==
    IF inferred_t # "unknown" THEN inferred_t ELSE override

\* col_type = override or inferred
effective_type(override, inferred_t) == IF Truthy(override) THEN override ELSE inferred_t

\* the col_info records one pass of the loop body can build for a column
col_infos(name, c, ov) ==
    LET inferred_t == infer_column_type(c)
        override == override_of(ov, name)
        col_type == effective_type(override, inferred_t)
        missing == isna_sum(c)
    IN  {[name |-> name,
          inferred_type |-> inferred_t,
          effective_type |-> col_type,
          overridden_type |-> override,
          missing_count |-> missing,
          missing_pct |-> IF Len(c.vals) > 0
                          THEN [num |-> missing * 100, den |-> Len(c.vals)]
                          ELSE [num |-> 0, den |-> 1],
          distinct_count |-> nunique(c),
          summaries |-> sm,
          plot_suggested |-> col_type \notin {"id", "text"}] :
         sm \in summaries_of(c, col_type)}

\* columns_profile after the loop over the columns from the j-th on
RECURSIVE columns_from(_, _, _)
columns_from(t, ov, j) ==
    IF j > Len(t.cols) THEN {<<>>}
    ELSE {<<[key |-> t.cols[j].name, value |-> ci]>> \o rest :
             ci \in col_infos(t.cols[j].name, t.cols[j].col, ov),
             rest \in columns_from(t, ov, j + 1)}

\* columns_profile with the keys in reverse column order
columns_profiles_Reversed(t, ov) ==
    {[r \in DOMAIN q |-> q[Len(q) + 1 - r]] : q \in columns_from(t, ov, 1)}

\* columns_profile after the loop over df.columns
columns_profiles(t, ov) == columns_from(t, ov, 1)

\* (df.isna().sum(axis=1) > 0).sum()
rows_with_missing(t) ==
    Cardinality({r \in 1..t.n_rows : \E j \in DOMAIN t.cols : isna(t.cols[j].col.vals[r])})

\* df.isna().sum().to_dict()
missing_by_column(t) ==
    [j \in DOMAIN t.cols |-> [key |-> t.cols[j].name, value |-> isna_sum(t.cols[j].col)]]

\* the profiles profile_dataset(df, overrides) can return
profile_dataset(t, ov) ==
    {[status |-> "done",
      n_rows |-> t.n_rows,
      n_cols |-> Len(t.cols),
      columns |-> cp,
      missing |-> [rows_with_missing |-> rows_with_missing(t),
                   missing_by_column |-> missing_by_column(t)]] :
     cp \in columns_profiles(t, ov)}

\* TransformRequest.drop_columns: the table without column name
drop_column(t, name) ==
    LET keep == {j \in DOMAIN t.cols : t.cols[j].name # name}
    IN  [n_rows |-> t.n_rows,
         cols |-> [r \in 1..Cardinality(keep) |->
                     t.cols[CHOOSE j \in keep :
                               Cardinality({m \in keep : m <= j}) = r]]]

\* df[col]
ColumnOf(t, col) == (t.cols[CHOOSE j \in DOMAIN t.cols : t.cols[j].name = col]).col

----------------------------------------------------------------------------
(* build_preprocessor (ml/preprocessing.py).  The result is a record: status *)
(* "ValueError" when the function raises, else status "ok" with X, y and     *)
(* the two role lists of the metadata.  The ColumnTransformer is built from  *)
(* the same two lists and is not modelled apart from them.                   *)

column_names(t) == {t.cols[j].name : j \in DOMAIN t.cols}

\* the loop body with "datetime" left to the dtype fallback
feature_role_DatetimeFallback(override, c) ==
    IF override = "numeric" THEN "numeric"
    ELSE IF override \in {"categorical", "boolean"} THEN "categorical"
    ELSE IF override \in {"id", "text"} THEN "skip"
    ELSE IF is_numeric_dtype(c) THEN "numeric"
    ELSE "categorical"

\* the branch of the loop body taken for a feature column
feature_role(override, c) ==
    IF override = "numeric" THEN "numeric"
    ELSE IF override \in {"categorical", "boolean"} THEN "categorical"
    ELSE IF override \in {"id", "text", "datetime"} THEN "skip"
    ELSE IF is_numeric_dtype(c) THEN "numeric"
    ELSE "categorical"

\* the list the loop appends to for role, over the columns from the j-th on
RECURSIVE features_from(_, _, _, _, _)
features_from(t, target, ov, role, j) ==
    IF j > Len(t.cols) THEN <<>>
    ELSE LET col == t.cols[j].name
             mine == /\ col # target
                     /\ feature_role(override_of(ov, col), t.cols[j].col) = role
         IN  (IF mine THEN <<col>> ELSE <<>>) \o features_from(t, target, ov, role, j + 1)

\* the loop X[col] = pd.to_numeric(X[col], errors="coerce") over a frame
coerce_columns(X, numeric_features) ==
    [n_rows |-> X.n_rows,
     cols |-> [j \in DOMAIN X.cols |->
                 IF X.cols[j].name \in Range(numeric_features)
                 THEN [name |-> X.cols[j].name, col |-> to_numeric(X.cols[j].col)]
                 ELSE X.cols[j]]]

\* the frames with X bound to the caller's frame itself
local_frames_Aliased(t, target) ==
    [X_ref |-> "df", objs |-> [df |-> t, X |-> t]]

\* the frames after X = df.drop(columns=[target_col]).copy(): objs holds the
\* caller's frame and the new one, X_ref says which of them X is bound to
local_frames(t, target) ==
    [X_ref |-> "X", objs |-> [df |-> t, X |-> drop_column(t, target)]]

\* the frames after the coercion loop has assigned into X
frames_after(t, target, numeric_features) ==
    LET h == local_frames(t, target)
    IN  [h EXCEPT !.objs[h.X_ref] = coerce_columns(@, numeric_features)]

\* the returned X
coerced_X(t, target, numeric_features) ==
    LET h == frames_after(t, target, numeric_features)
    IN  h.objs[h.X_ref]

\* the caller's frame once build_preprocessor has returned or raised
caller_table_after(t, target, ov) ==
    IF target \notin column_names(t) THEN t
    ELSE frames_after(t, target, features_from(t, target, ov, "numeric", 1)).objs.df

build_preprocessor(t, target, ov) ==
    IF target \notin column_names(t) THEN [status |-> "ValueError"]
    ELSE LET numeric_features == features_from(t, target, ov, "numeric", 1)
             categorical_features == features_from(t, target, ov, "categorical", 1)
         IN  [status |-> "ok",
              X |-> coerced_X(t, target, numeric_features),
              y |-> (t.cols[CHOOSE j \in DOMAIN t.cols : t.cols[j].name = target]).col,
              numeric_features |-> numeric_features,
              categorical_features |-> categorical_features]

----------------------------------------------------------------------------
(* Model evaluation (ml/evaluation.py).  A metrics dict is a function from *)
(* its keys to numbers.  accuracy_score, f1_score, roc_auc_score and the   *)
(* regression metrics are library calls: their values are inputs.          *)

\* the shape of clf.predict_proba(X_test): one column per fitted class
ProbaMatrix(n_classes) == [none |-> FALSE, ndim |-> 2, cols |-> n_classes]
NoProba == [none |-> TRUE, ndim |-> 0, cols |-> 0]

\* the ROC-AUC branch: what is handed to roc_auc_score ("matrix", "column",
\* "vector"), "IndexError" when y_proba[:, 1] does not exist, "skip" when
\* there are no probabilities
roc_branch(y_proba) ==
    IF y_proba.none THEN "skip"
    ELSE IF y_proba.ndim = 2 /\ y_proba.cols > 1 THEN "matrix"
    ELSE IF y_proba.ndim = 2
         THEN (IF y_proba.cols >= 2 THEN "column" ELSE "IndexError")
         ELSE "vector"

\* the key the ROC-AUC value is stored under, "" when the try block stores
\* none; roc_lib is what roc_auc_score does: it raises, or returns v
roc_key(y_proba, roc_lib) ==
    LET b == roc_branch(y_proba)
    IN  IF b \in {"skip", "IndexError"} \/ roc_lib.raises THEN ""
        ELSE IF b = "matrix" THEN "roc_auc_ovr"
        ELSE "roc_auc"

evaluate_classification(acc, f1, y_proba, roc_lib) ==
    LET rk == roc_key(y_proba, roc_lib)
        keys == {"accuracy", "f1_macro"} \cup (IF rk = "" THEN {} ELSE {rk})
    IN  [x \in keys |-> IF x = "accuracy" THEN acc
                        ELSE IF x = "f1_macro" THEN f1
                        ELSE roc_lib.v]

\* mae and r2 take no part in any decision; they are carried as given.  mse
\* is kept by its root: rmse = sqrt(mse), and the squares of the large
\* errors would not fit the integers
evaluate_regression(mae, rmse, r2) ==
    [x \in {"mae", "mse", "rmse", "r2"} |->
        IF x = "mae" THEN mae
        ELSE IF x = "mse" THEN rmse
        ELSE IF x = "rmse" THEN rmse
        ELSE r2]

----------------------------------------------------------------------------
(* run_baseline_models (ml/modeling.py).  Splitting, fitting, predicting   *)
(* and scoring are library calls; ev holds  what they give for the run:    *)
(*   f1, acc, rmse   the test-split scores of the three candidates         *)
(*   roc             what roc_auc_score does                               *)
(*   imp             per candidate, the seed of its feature_importances_   *)
(*   fi_raises       whether reading the importances or names raises       *)
(*   fail_at, fail_kind   the candidate whose fit or predict raises for a  *)
(*                   reason not modelled here (0: none), and the exception *)
(* The result is a record with status "ok", or the exception raised.       *)

get_candidate_models_OneRoster(task) ==
    <<[key |-> "linreg", class_name |-> "LinearRegression", params |-> "roster"],
      [key |-> "rf", class_name |-> "RandomForestRegressor", params |-> "roster"],
      [key |-> "gb", class_name |-> "GradientBoostingRegressor", params |-> "roster"]>>

\* _get_candidate_models: the roster in dict order; params "roster" stands
\* for the hyperparameters written in the constructor calls
get_candidate_models(task) ==
    IF task = "classification"
    THEN <<[key |-> "logreg", class_name |-> "LogisticRegression", params |-> "roster"],
           [key |-> "rf", class_name |-> "RandomForestClassifier", params |-> "roster"],
           [key |-> "gb", class_name |-> "GradientBoostingClassifier", params |-> "roster"]>>
    ELSE <<[key |-> "linreg", class_name |-> "LinearRegression", params |-> "roster"],
           [key |-> "rf", class_name |-> "RandomForestRegressor", params |-> "roster"],
           [key |-> "gb", class_name |-> "GradientBoostingRegressor", params |-> "roster"]>>

\* tune_model(..., n_trials): a study of n_trials trials and its best_params
tune_model(n_trials) == [params |-> "tuned", trials |-> n_trials]

\* the classes of y as the library sees them
classes_of(y_col) == Range(y_col.vals)

\* sklearn's train_test_split(X, y, test_size, stratify): n_test is
\* ceil(test_size * n) and n_train the rest; it raises ValueError when a side
\* is empty and, stratified, when a class has fewer than 2 members or a side
\* has fewer rows than there are classes.  test_size is in percent.
train_test_split(y_col, test_pct, stratified) ==
    LET n == Len(y_col.vals)
        n_test == (n * test_pct + 99) \div 100
        n_train == n - n_test
        classes == classes_of(y_col)
    IN  IF n_train <= 0 \/ n_test <= 0 THEN "ValueError"
        ELSE IF /\ stratified
                /\ \/ \E v \in classes :
                        Cardinality({j \in DOMAIN y_col.vals : y_col.vals[j] = v}) < 2
                   \/ n_train < Cardinality(classes)
                   \/ n_test < Cardinality(classes)
        THEN "ValueError"
        ELSE "ok"

\* clf.fit / clf.predict of candidate k: "none" or the exception.  The
\* pipeline raises ValueError when no feature is left to fit on, and
\* LogisticRegression when y has a single class.
fit_error(task, y_col, meta, key, k, ev) ==
    IF ev.fail_at = k THEN ev.fail_kind
    ELSE IF Len(meta.numeric_features) + Len(meta.categorical_features) = 0
    THEN "ValueError"
    ELSE IF task = "classification" /\ key = "logreg"
            /\ Cardinality(classes_of(y_col)) = 1
    THEN "ValueError"
    ELSE "none"

\* the metrics of candidate k (modeling.py:87-93)
candidate_metrics(task, y_col, k, ev) ==
    IF task = "classification"
    THEN evaluate_classification(ev.acc[k], ev.f1[k],
                                 ProbaMatrix(Cardinality(classes_of(y_col))), ev.roc)
    ELSE evaluate_regression(ev.rmse[k], ev.rmse[k], 0)

\* metrics.get("f1_macro", metrics.get("accuracy", 0.0)) and -metrics["rmse"]
candidate_score(task, metrics) ==
    IF task = "classification"
    THEN (IF "f1_macro" \in DOMAIN metrics THEN metrics["f1_macro"]
          ELSE IF "accuracy" \in DOMAIN metrics THEN metrics["accuracy"]
          ELSE 0)
    ELSE 0 - metrics["rmse"]

is_better_OrEqual(score, best_score) == score >= best_score

\* if score > best_score
is_better(score, best_score) == score > best_score

\* the loop over models.items() after its first k passes: err is the
\* exception that ended it, best the position of best_model_name (0: None)
RECURSIVE loop_state(_, _, _, _, _)
loop_state(task, y_col, meta, ev, k) ==
    IF k = 0
    THEN [err |-> "none", results_per_model |-> <<>>, best |-> 0,
          best_score |-> NoBestScore]
    ELSE LET prev == loop_state(task, y_col, meta, ev, k - 1)
             cand == get_candidate_models(task)[k]
             fe == fit_error(task, y_col, meta, cand.key, k, ev)
             metrics == candidate_metrics(task, y_col, k, ev)
             score == candidate_score(task, metrics)
             better == is_better(score, prev.best_score)
         IN  IF prev.err # "none" THEN prev
             ELSE IF fe # "none" THEN [prev EXCEPT !.err = fe]
             ELSE [err |-> "none",
                   results_per_model |->
                       Append(prev.results_per_model,
                              [key |-> cand.key,
                               value |-> [metrics |-> metrics,
                                          class_name |-> cand.class_name]]),
                   best |-> IF better THEN k ELSE prev.best,
                   best_score |-> IF better THEN score ELSE prev.best_score]

\* hasattr(model_step, "feature_importances_"): the tree ensembles
has_feature_importances(class_name) ==
    class_name \in {"RandomForestClassifier", "RandomForestRegressor",
                    "GradientBoostingClassifier", "GradientBoostingRegressor"}

\* the names one feature column expands to: one for a numeric feature, one
\* per category (distinct non-null value) for a categorical feature
RECURSIVE expanded_names(_, _, _, _)
expanded_names(X, features, kind, j) ==
    IF j > Len(features) THEN <<>>
    ELSE LET n == IF kind = "num" THEN 1 ELSE nunique(ColumnOf(X, features[j]))
         IN  [r \in 1..n |-> [kind |-> kind, col |-> features[j], cat |-> r]]
             \o expanded_names(X, features, kind, j + 1)

\* preprocess_step.get_feature_names_out(): the "num" transformer's names,
\* then the "cat" transformer's
get_feature_names_out(X, meta) ==
    expanded_names(X, meta.numeric_features, "num", 1)
    \o expanded_names(X, meta.categorical_features, "cat", 1)

\* model_step.feature_importances_ of candidate k, one number per name
feature_importances_of(ev, k, n) == [j \in 1..n |-> (ev.imp[k] * j) % 3]

sorted_importances_Ascending(pairs) ==
    LET rank(j) == 1 + Cardinality({m \in DOMAIN pairs :
                        \/ pairs[m].importance < pairs[j].importance
                        \/ (pairs[m].importance = pairs[j].importance /\ m < j)})
    IN  [r \in DOMAIN pairs |-> pairs[CHOOSE j \in DOMAIN pairs : rank(j) = r]]

\* sorted(zip(feature_names, importances), key=lambda x: x[1], reverse=True):
\* a stable sort, equal importances stay in their order
sorted_importances(pairs) ==
    LET rank(j) == 1 + Cardinality({m \in DOMAIN pairs :
                        \/ pairs[m].importance > pairs[j].importance
                        \/ (pairs[m].importance = pairs[j].importance /\ m < j)})
    IN  [r \in DOMAIN pairs |-> pairs[CHOOSE j \in DOMAIN pairs : rank(j) = r]]

NoImportances == [none |-> TRUE, list |-> <<>>]

\* the try block at modeling.py:108-124 for the best pipeline, candidate k
feature_importances(X, meta, class_name, ev, k) ==
    IF ev.fi_raises THEN NoImportances
    ELSE IF has_feature_importances(class_name)
    THEN LET names == get_feature_names_out(X, meta)
             imps == feature_importances_of(ev, k, Len(names))
         IN  [none |-> FALSE,
              list |-> sorted_importances(
                         [j \in DOMAIN names |->
                             [feature |-> names[j], importance |-> imps[j]]])]
    ELSE NoImportances

run_baseline_models(t, target, ov, test_pct, ev) ==
    LET p == build_preprocessor(t, target, ov)
    IN  IF p.status # "ok" THEN [status |-> p.status]
        ELSE
        LET task == detect_task_type(p.y)
            meta == [numeric_features |-> p.numeric_features,
                     categorical_features |-> p.categorical_features]
            split == train_test_split(p.y, test_pct, task = "classification")
            models == get_candidate_models(task)
            st == loop_state(task, p.y, meta, ev, Len(models))
        IN  IF split # "ok" THEN [status |-> split]
            ELSE IF st.err # "none" THEN [status |-> st.err]
            ELSE IF st.best = 0 THEN [status |-> "RuntimeError"]
            ELSE [status |-> "ok",
                  task_type |-> task,
                  target |-> target,
                  best_model |-> models[st.best].key,
                  best_model_class |-> models[st.best].class_name,
                  best_model_params |-> models[st.best].params,
                  models |-> st.results_per_model,
                  n_rows |-> t.n_rows,
                  n_features |-> Len(p.X.cols),
                  test_size |-> test_pct,
                  metrics |-> st.results_per_model[st.best].value.metrics,
                  feature_importances |->
                      feature_importances(p.X, meta, models[st.best].class_name,
                                          ev, st.best),
                  preprocessing |-> meta]

\* no profile yet (meta.get("last_profile") is None), no preprocessor yet
NoProfile == [status |-> "none"]
NoPrep == [status |-> "none"]

----------------------------------------------------------------------------
(* The endpoints (main.py).  A response is [op, dataset_id, status, body]. *)
(* A meta dict is a record; a key not set yet holds NoProfile, NoModeling  *)
(* or the empty overrides.  A file is a table, or BadFile when read_csv    *)
(* cannot parse it.                                                        *)

NoModeling == [status |-> "none"]
NoBody == [status |-> "none"]
BadFile == [n_rows |-> 0 - 1, cols |-> <<>>]

Response(op, dataset_id, status, body) ==
    [op |-> op, dataset_id |-> dataset_id, status |-> status, body |-> body]

\* f with key d set to v (d may be new)
Put(f, d, v) == [x \in DOMAIN f \cup {d} |-> IF x = d THEN v ELSE f[x]]

\* the 400 of main.py:113-117 as a server error
missing_target_response_ServerError(dataset_id) == Response("model", dataset_id, 500, NoBody)

\* raise HTTPException(status_code=400, "Target column ... not found")
missing_target_response(dataset_id) == Response("model", dataset_id, 400, NoBody)

\* the except clauses of run_modeling: ValueError is a 400, the rest a 500
error_status(exception) == IF exception = "ValueError" THEN 400 ELSE 500

\* meta after a run that stores whatever the run gave
meta_after_run_Always(meta, result) == [meta EXCEPT !.modeling = result]

\* meta["modeling"] = result is reached only when the run raised nothing
meta_after_run(meta, result) ==
    IF result.status = "ok" THEN [meta EXCEPT !.modeling = result] ELSE meta

\* POST /api/model/{dataset_id}: the response and the registry after it
run_modeling(DS, fs, dataset_id, rq, ev) ==
    IF dataset_id \notin DOMAIN DS
    THEN [response |-> Response("model", dataset_id, 404, NoBody), DATASETS |-> DS]
    ELSE IF dataset_id \notin DOMAIN fs \/ fs[dataset_id] = BadFile
    THEN [response |-> Response("model", dataset_id, 500, NoBody), DATASETS |-> DS]
    ELSE IF rq.target \notin column_names(fs[dataset_id])
    THEN [response |-> missing_target_response(dataset_id), DATASETS |-> DS]
    ELSE LET result == run_baseline_models(fs[dataset_id], rq.target, rq.overrides,
                                           rq.test_size, ev)
         IN  [response |-> IF result.status = "ok"
                           THEN Response("model", dataset_id, 200, result)
                           ELSE Response("model", dataset_id,
                                         error_status(result.status), NoBody),
              DATASETS |-> [DS EXCEPT ![dataset_id] = meta_after_run(@, result)]]

\* POST /api/upload: kind is "not_csv" (the file name), "unparsable" or
\* "table"; dataset_id is the fresh uuid4
upload_dataset(DS, fs, dataset_id, kind, t) ==
    IF kind = "not_csv"
    THEN [response |-> Response("upload", dataset_id, 400, NoBody),
          DATASETS |-> DS, files |-> fs]
    ELSE IF kind = "unparsable"
    THEN [response |-> Response("upload", dataset_id, 400, NoBody),
          DATASETS |-> DS, files |-> Put(fs, dataset_id, BadFile)]
    ELSE [response |-> Response("upload", dataset_id, 200,
                                [status |-> "ok", n_rows |-> t.n_rows,
                                 n_cols |-> Len(t.cols)]),
          DATASETS |-> Put(DS, dataset_id,
                           [n_rows |-> t.n_rows, n_cols |-> Len(t.cols),
                            overrides |-> <<>>, last_profile |-> NoProfile,
                            modeling |-> NoModeling]),
          files |-> Put(fs, dataset_id, t)]

\* POST /api/eda/{dataset_id} (_compute_eda): the outcomes it can have
compute_eda(DS, fs, dataset_id, ov) ==
    IF dataset_id \notin DOMAIN DS
    THEN {[response |-> Response("eda", dataset_id, 404, NoBody), DATASETS |-> DS]}
    ELSE IF dataset_id \notin DOMAIN fs \/ fs[dataset_id] = BadFile
    THEN {[response |-> Response("eda", dataset_id, 500, NoBody), DATASETS |-> DS]}
    ELSE {[response |-> Response("eda", dataset_id, 200, pr),
           DATASETS |-> [DS EXCEPT ![dataset_id].overrides = ov,
                                   ![dataset_id].last_profile = pr]] :
          pr \in profile_dataset(fs[dataset_id], ov)}

\* GET /api/insights/{dataset_id}: the body keeps what the insights are
\* written from, the modeling result read from the registry
get_insights(DS, fs, dataset_id) ==
    IF dataset_id \notin DOMAIN DS
    THEN Response("insights", dataset_id, 404, NoBody)
    ELSE IF dataset_id \notin DOMAIN fs \/ fs[dataset_id] = BadFile
    THEN Response("insights", dataset_id, 500, NoBody)
    ELSE Response("insights", dataset_id, 200, DS[dataset_id].modeling)

\* GET /api/report/{dataset_id}: build_html_report is called with a keyword
\* (base_path) it does not take, so html and pdf end in a TypeError
get_report(DS, fs, dataset_id, format) ==
    IF dataset_id \notin DOMAIN DS
    THEN Response("report", dataset_id, 404, NoBody)
    ELSE IF dataset_id \notin DOMAIN fs \/ fs[dataset_id] = BadFile
    THEN Response("report", dataset_id, 500, NoBody)
    ELSE IF format \in {"html", "pdf"}
    THEN Response("report", dataset_id, 500, NoBody)
    ELSE Response("report", dataset_id, 400, NoBody)

\* POST /api/reset
reset_server ==
    [response |-> Response("reset", 0, 200, NoBody), DATASETS |-> <<>>, files |-> <<>>]

----------------------------------------------------------------------------
(* Input columns *)

NumVals == {Num(0, 0), Num(1, 0), Num(2, 0), Num(1, 500000000)}
BoolVals == {Bool(TRUE), Bool(FALSE)}
StrVals == {Str(1, 3, FALSE), Str(2, 40, FALSE), Str(3, 10, TRUE)}

\* the small columns: every sequence of up to MaxLen cells of one kind,
\* nulls mixed in
SmallCols ==
    {Series(q) : q \in SeqsUpTo(NumVals \cup {Null}, MaxLen)
                      \cup SeqsUpTo(BoolVals \cup {Null}, MaxLen)
                      \cup SeqsUpTo(StrVals \cup {Null}, MaxLen)}

\* z nulls, then the k distinct integers 1..k, then d more copies of 1
NumFamily(z, k, d) ==
    [j \in 1..(z + k + d) |->
        IF j <= z THEN Null
        ELSE IF j <= z + k THEN Num(j - z, 0)
        ELSE Num(1, 0)]

\* values a numeric column may end with: nothing, a fraction, a fraction
\* inside the absolute tolerance, a fraction inside the relative tolerance
Tails == {<<>>, <<Num(1, 500000000)>>, <<Num(1, 5)>>, <<Num(100000, 500000000)>>}

TargetCols ==
    SmallCols \cup
    UNION {{Series(NumFamily(z, k, d) \o t) :
                z \in 0..1,
                d \in {0, 1} \cup {m \in (k - 1)..(k + 1 + Slack) : m >= 0},
                t \in Tails} :
           k \in 0..(MaxClassUnique + Slack)}

\* z nulls, a date strings, b other strings, c more date strings, all distinct
DateFamily(z, a, b, c) ==
    [j \in 1..(z + a + b + c) |->
        IF j <= z THEN Null
        ELSE IF j <= z + a THEN Str(100 + j, 10, TRUE)
        ELSE IF j <= z + a + b THEN Str(100 + j, 5, FALSE)
        ELSE Str(100 + j, 10, TRUE)]

\* n booleans, alternating, then z nulls
BoolFamily(n, z) ==
    [j \in 1..(n + z) |-> IF j <= n THEN Bool(j % 2 = 0) ELSE Null]

\* 7 of 10 and 35 of 50 are exactly 70 %
DateCols ==
    {Series(DateFamily(z, a, b, c)) :
        z \in 0..1,
        a \in (7 - Slack)..(7 + Slack) \cup (35 - Slack)..(35 + Slack),
        b \in {3, 15, 25}, c \in {0, 20}}

NumericCols ==
    {Series(NumFamily(z, k, d)) :
        z \in 0..1, k \in 0..(MaxCatUnique + 7 + Slack), d \in 0..(2 + Slack)}

BoolCols ==
    {Series(BoolFamily(n, z)) : n \in {1, 2, SampleSize + Slack}, z \in 0..1}

InferCols == SmallCols \cup DateCols \cup NumericCols \cup BoolCols

\* the columns numeric_summary is tried on: integers and nulls, and
\* boolean columns
SummaryVals == {Null, Num(-9, 0), Num(0, 0), Num(1, 0), Num(9, 0)}

SummaryCols ==
    {Series(q) : q \in SeqsUpTo(SummaryVals, MaxLen + 2)}
    \cup {Series(q) : q \in SeqsUpTo(BoolVals, MaxLen)}

\* k distinct strings, the j-th occurring tieCount times when j <= g and
\* j - g + 1 times otherwise, each in one block, in order of j
TieCol(k, g, tieCount) ==
    LET cnt(j) == IF j <= g THEN tieCount ELSE j - g + 1
        start(j) == IF j <= g THEN (j - 1) * tieCount
                    ELSE g * tieCount + ((j - g - 1) * (j - g)) \div 2 + (j - g - 1)
        total == start(k) + cnt(k)
    IN  [m \in 1..total |->
            LET j == CHOOSE jj \in 1..k : start(jj) < m /\ m <= start(jj) + cnt(jj)
            IN  Str(j, 3, FALSE)]

CategoricalCols ==
    SmallCols \cup
    {Series(TieCol(k, g, tc)) :
        k \in (TopN - 1)..(TopN + 1 + Slack), g \in 1..(2 + Slack), tc \in {1, TopN + 4}}

----------------------------------------------------------------------------
(* Input tables *)

\* 1, 2, 2, 3, 3, 3, ...: the value t fills t rows, so no two values of a
\* column occur equally often
Tri(j) == CHOOSE t \in 1..j : t * (t + 1) >= 2 * j /\ (t - 1) * t < 2 * j

KBool(n) == [j \in 1..n |-> Bool(j % 2 = 0)]
KInt(n) == [j \in 1..n |-> Num(Tri(j), 0)]
KIntNull(n) == [j \in 1..n |-> IF j = 1 THEN Null ELSE Num(Tri(j), 0)]
KDate(n) == [j \in 1..n |-> Str(Tri(j), 10, TRUE)]
KText(n) == [j \in 1..n |-> Str(10 + Tri(j), 40, FALSE)]
\* short strings, each once, and a null in the last row: a tie when n = 3
KCatNull(n) == [j \in 1..n |-> IF j = n THEN Null ELSE Str(20 + j, 3, FALSE)]

FirstKinds(n) == {KBool(n), KInt(n), KIntNull(n), KDate(n), KText(n), KCatNull(n)}
RestKinds(n) == {KBool(n), KCatNull(n)}

Names == {"a", "b", "c"}

\* the heights of the tables: one row, and three (room for a repeated value,
\* a tie and a null)
TableRows == {1, 3}

\* longest table, in columns
MaxCols == 3
\* most entries of an overrides dict
MaxOverrides == 1

\* the sequences of up to MaxCols distinct column names
NameSeqs ==
    {q \in UNION {[1..m -> Names] : m \in 1..MaxCols} :
        \A a, b \in DOMAIN q : a # b => q[a] # q[b]}

\* tables of 1 and 3 rows: any first column, the others booleans or strings
ShortTables ==
    UNION {UNION {{[n_rows |-> n,
                    cols |-> [j \in DOMAIN names |->
                                [name |-> names[j],
                                 col |-> Series(IF j = 1 THEN first ELSE rest[j])]]] :
                     first \in FirstKinds(n), rest \in [DOMAIN names -> RestKinds(n)]} :
                  names \in NameSeqs} :
           n \in TableRows}

Tables == ShortTables

OverrideDicts(types) ==
    UNION {[D -> types] : D \in {E \in SUBSET Names : Cardinality(E) <= MaxOverrides}}

\* the tables handed to build_preprocessor: the three-row ones
PrepTables == {t \in Tables : t.n_rows = 3}

\* the target names asked for: "b" is absent from some tables
Targets == {"a", "b"}

\* override values as build_preprocessor may receive them: the vocabulary
\* and a string outside it
PrepOverrideValues == ColumnTypes \cup {"unknown"}

----------------------------------------------------------------------------
(* Inputs of a modeling run *)

\* target columns without nulls: one, two and three string classes, two
\* integer classes, and all-distinct integers
TOne(n) == [j \in 1..n |-> Str(1, 3, FALSE)]
TTwo(n) == [j \in 1..n |-> Str(1 + (j % 2), 3, FALSE)]
TThree(n) == [j \in 1..n |-> Str(1 + (j % 3), 3, FALSE)]
TIntTwo(n) == [j \in 1..n |-> Num(j % 2, 0)]
TReg(n) == [j \in 1..n |-> Num(j, 0)]

\* six rows split for every target above at test_size 0.5; three rows only
\* split unstratified
TargetKinds(n) ==
    IF n = 6 THEN {TOne(n), TTwo(n), TThree(n), TIntTwo(n), TReg(n)}
    ELSE {TTwo(n), TReg(n)}

\* the table a, b or a, c, b with target column b
ModelTable(n, first, second, target) ==
    [n_rows |-> n,
     cols |-> <<[name |-> "a", col |-> Series(first)]>>
              \o (IF second THEN <<[name |-> "c", col |-> Series(KBool(n))]>> ELSE <<>>)
              \o <<[name |-> "b", col |-> Series(target)]>>]

ModelTables ==
    UNION {{ModelTable(n, first, second, target) :
               first \in {KInt(n), KCatNull(n)}, second \in BOOLEAN,
               target \in TargetKinds(n)} :
           n \in {3, 6}}

\* ModelingRequest: test_size is in percent
Request(target, test_size, ov, tune, metric) ==
    [target |-> target, test_size |-> test_size, random_state |-> 42,
     overrides |-> ov, tune_hyperparameters |-> tune, tuning_trials |-> 20,
     optimize_metric |-> metric]

\* the default request on target b and its one-field variations
ModelRequests ==
    {Request("b", 50, <<>>, FALSE, "None"),
     Request("b", 20, <<>>, FALSE, "None"),
     Request("c", 50, <<>>, FALSE, "None"),
     Request("b", 50, [x \in {"a"} |-> "id"], FALSE, "None"),
     Request("b", 50, [x \in {"a"} |-> "categorical"], FALSE, "None"),
     Request("b", 50, <<>>, TRUE, "None"),
     Request("b", 50, <<>>, FALSE, "accuracy")}

\* what the library calls give beside the scores
MiscEnvs ==
    {[roc |-> [raises |-> FALSE, v |-> 1], imp |-> <<0, 1, 2>>, fi_raises |-> FALSE,
      fail_at |-> 0, fail_kind |-> "none"],
     [roc |-> [raises |-> TRUE, v |-> 0], imp |-> <<0, 2, 1>>, fi_raises |-> FALSE,
      fail_at |-> 0, fail_kind |-> "none"],
     [roc |-> [raises |-> FALSE, v |-> 1], imp |-> <<0, 0, 0>>, fi_raises |-> FALSE,
      fail_at |-> 0, fail_kind |-> "none"],
     [roc |-> [raises |-> FALSE, v |-> 1], imp |-> <<0, 1, 2>>, fi_raises |-> TRUE,
      fail_at |-> 0, fail_kind |-> "none"],
     [roc |-> [raises |-> FALSE, v |-> 1], imp |-> <<0, 1, 2>>, fi_raises |-> FALSE,
      fail_at |-> 2, fail_kind |-> "ValueError"],
     [roc |-> [raises |-> FALSE, v |-> 1], imp |-> <<0, 1, 2>>, fi_raises |-> FALSE,
      fail_at |-> 3, fail_kind |-> "Exception"]}

\* an ev: macro-F1 is sc; accuracy is sc, or sc reversed when alt; RMSE is
\* sc, or when alt 0 for 0 and 1e9 + sc - 1 otherwise (errors so large that
\* -RMSE does not exceed the initial best_score)
MkEnv(sc, alt, m) ==
    [f1 |-> sc,
     acc |-> [k \in DOMAIN sc |-> IF alt THEN MaxScore - sc[k] ELSE sc[k]],
     rmse |-> [k \in DOMAIN sc |->
                 IF alt /\ sc[k] > 0 THEN (0 - NoBestScore) + sc[k] - 1 ELSE sc[k]],
     roc |-> m.roc, imp |-> m.imp, fi_raises |-> m.fi_raises,
     fail_at |-> m.fail_at, fail_kind |-> m.fail_kind]

Envs == {MkEnv(sc, alt, m) : sc \in [1..3 -> 0..MaxScore], alt \in BOOLEAN, m \in MiscEnvs}

----------------------------------------------------------------------------
(* Inputs of the endpoints *)

\* the ids uuid4 can give
DatasetIds == {1, 2}

\* a two-class table that trains at test_size 0.5 and a three-row table
\* whose integer target is a regression
ApiTables == {ModelTable(6, KInt(6), FALSE, TTwo(6)), ModelTable(3, KInt(3), FALSE, TReg(3))}

\* column c is in neither table
ApiRequests ==
    {Request("b", 50, <<>>, FALSE, "None"), Request("c", 50, <<>>, FALSE, "None")}

\* the library's answers: two rankings of the candidates that train, and
\* a run whose third fit raises an exception that is not a ValueError
ApiEnvs ==
    LET quiet == {x \in MiscEnvs : ~x.roc.raises /\ ~x.fi_raises /\ x.imp = <<0, 1, 2>>}
    IN  {MkEnv(<<2, 1, 0>>, FALSE, m) : m \in {x \in quiet : x.fail_at = 0}}
        \cup {MkEnv(<<0, 1, 2>>, FALSE, m) :
                m \in {x \in quiet : x.fail_at = 0 \/ x.fail_kind = "Exception"}}

ApiOverrides == {<<>>, [x \in {"a"} |-> "categorical"]}

----------------------------------------------------------------------------
(* Idle values of the variables a specification does not use *)


IdleTask == y = NoSeries /\ task_type = "none"
IdleInfer == s = NoSeries /\ inferred = "none"
IdleSummaries == num_result = [status |-> "none"] /\ cat_result = [status |-> "none"]
NoTable == [n_rows |-> 0, cols |-> <<>>]
IdleTable == df = NoTable /\ overrides = <<>> /\ profile = NoProfile /\ dropped = {}
IdlePrep == target_col = "" /\ prep = NoPrep
NoRequest == [target |-> ""]
NoEnv == [fail_at |-> 0]
NoResponse == [op |-> "none", dataset_id |-> 0, status |-> 0, body |-> NoBody]
IdleApi ==
    /\ DATASETS = <<>> /\ files = <<>> /\ req = NoRequest /\ env = NoEnv
    /\ response = NoResponse /\ last_ok = <<>> /\ eda = <<>>

----------------------------------------------------------------------------
(* Task detection: SpecTask *)

InitTask ==
    /\ y \in TargetCols
    /\ task_type = "none"
    /\ IdleInfer /\ IdleSummaries /\ IdleTable /\ IdlePrep
    /\ IdleApi

DetectTaskType ==
    /\ task_type = "none"
    /\ task_type' = detect_task_type(y)
    /\ UNCHANGED api_vars
    /\ UNCHANGED <<y, s, inferred, num_result, cat_result, df, overrides,
                   profile, dropped, target_col, prep>>

NextTask == DetectTaskType

SpecTask == InitTask /\ [][NextTask]_vars

----------------------------------------------------------------------------
(* Type inference: SpecInfer *)

InitInfer ==
    /\ s \in InferCols
    /\ inferred = "none"
    /\ IdleTask /\ IdleSummaries /\ IdleTable /\ IdlePrep
    /\ IdleApi

InferColumnType ==
    /\ inferred = "none"
    /\ inferred' = infer_column_type(s)
    /\ UNCHANGED api_vars
    /\ UNCHANGED <<y, task_type, s, num_result, cat_result, df, overrides,
                   profile, dropped, target_col, prep>>

NextInfer == InferColumnType

SpecInfer == InitInfer /\ [][NextInfer]_vars

----------------------------------------------------------------------------
(* Summaries: SpecNum, SpecCat *)

InitNum ==
    /\ s \in SummaryCols
    /\ inferred = "none"
    /\ IdleTask /\ IdleSummaries /\ IdleTable /\ IdlePrep
    /\ IdleApi

NumericSummary ==
    /\ num_result.status = "none"
    /\ num_result' = numeric_summary(s)
    /\ UNCHANGED api_vars
    /\ UNCHANGED <<y, task_type, s, inferred, cat_result, df, overrides,
                   profile, dropped, target_col, prep>>

NextNum == NumericSummary

SpecNum == InitNum /\ [][NextNum]_vars

InitCat ==
    /\ s \in CategoricalCols
    /\ inferred = "none"
    /\ IdleTask /\ IdleSummaries /\ IdleTable /\ IdlePrep
    /\ IdleApi

CategoricalSummary ==
    /\ cat_result.status = "none"
    /\ cat_result' \in categorical_summaries(s)
    /\ UNCHANGED api_vars
    /\ UNCHANGED <<y, task_type, s, inferred, num_result, df, overrides,
                   profile, dropped, target_col, prep>>

NextCat == CategoricalSummary

SpecCat == InitCat /\ [][NextCat]_vars

----------------------------------------------------------------------------
(* Profiling: SpecProfile *)

InitProfile ==
    /\ df \in Tables
    /\ overrides \in OverrideDicts(ColumnTypes)
    /\ profile = NoProfile
    /\ dropped = {}
    /\ IdleTask /\ IdleInfer /\ IdleSummaries /\ IdlePrep
    /\ IdleApi

\* an EDA pass over the table as it stands
ProfileDataset ==
    /\ profile.status = "none"
    /\ profile' \in profile_dataset(df, overrides)
    /\ UNCHANGED api_vars
    /\ UNCHANGED <<y, task_type, s, inferred, num_result, cat_result, df,
                   overrides, dropped, target_col, prep>>

\* a column is dropped from the profiled table; the cached profile goes
DropColumn ==
    /\ profile.status = "done"
    /\ \E j \in DOMAIN df.cols :
          /\ df' = drop_column(df, df.cols[j].name)
          /\ dropped' = dropped \cup {df.cols[j].name}
    /\ profile' = NoProfile
    /\ UNCHANGED api_vars
    /\ UNCHANGED <<y, task_type, s, inferred, num_result, cat_result,
                   overrides, target_col, prep>>

NextProfile == ProfileDataset \/ DropColumn

SpecProfile == InitProfile /\ [][NextProfile]_vars

----------------------------------------------------------------------------
(* Claims about detect_task_type *)

TargetNonNull == {j \in DOMAIN y.vals : y.vals[j].k # "null"}
TargetDistinct == {y.vals[j] : j \in TargetNonNull}
TargetNumeric == y.dtype \in {"int64", "float64", "bool"}
TargetIntegral == \A j \in TargetNonNull : y.vals[j].f = 0
TargetNearIntegral ==
    \A j \in TargetNonNull :
        y.vals[j].f <= 10 + 10000 * (IF y.vals[j].i < 0 THEN -y.vals[j].i ELSE y.vals[j].i)

\* C1 as stated: no non-null value -> regression; a numeric target is a
\* classification exactly when all its non-null values are integral and it
\* has at most 20 distinct ones; a non-numeric target is a classification.
C1_AsStated ==
    task_type # "none" =>
        IF TargetNonNull = {} THEN task_type = "regression"
        ELSE IF TargetNumeric THEN
            (task_type = "classification"
                <=> (TargetIntegral /\ Cardinality(TargetDistinct) <= 20))
            /\ task_type \in {"classification", "regression"}
        ELSE task_type = "classification"

\* C1 amended: no non-null value -> regression; a target of numeric storage
\* (integer, float, boolean) is a classification exactly when every non-null
\* value is within 1e-8 + 1e-5 * |trunc v| of its truncation, there are at
\* most 20 distinct non-null values, and the distinct values are fewer than
\* half of the non-null values; any other target is a classification.
C1_TaskRule ==
    task_type # "none" =>
        IF TargetNonNull = {} THEN task_type = "regression"
        ELSE IF TargetNumeric THEN
            (task_type = "classification"
                <=> (/\ TargetNearIntegral
                     /\ Cardinality(TargetDistinct) <= 20
                     /\ 2 * Cardinality(TargetDistinct) < Cardinality(TargetNonNull)))
            /\ task_type \in {"classification", "regression"}
        ELSE task_type = "classification"

\* a numeric target with exactly 20 distinct values, one of them fractional
\* but inside the tolerance, detected as a classification
C1_Witness ==
    /\ task_type = "classification"
    /\ TargetNumeric
    /\ Cardinality(TargetDistinct) = 20
    /\ ~TargetIntegral

----------------------------------------------------------------------------
(* Claims about infer_column_type *)

ColNonNull == {j \in DOMAIN s.vals : s.vals[j].k # "null"}
ColDistinct == {s.vals[j] : j \in ColNonNull}
ColAllBool == ColNonNull # {} /\ \A j \in ColNonNull : s.vals[j].k = "bool"
ColHasNull == ColNonNull # DOMAIN s.vals

\* the positions of the first 50 non-null values, and those that parse
ColSampled == {j \in ColNonNull : Cardinality({m \in ColNonNull : m <= j}) <= 50}
ColSampledDates == {j \in ColSampled : s.vals[j].date}
ColDates == {j \in ColNonNull : s.vals[j].date}

\* C2 as stated: a column whose non-null values are all True/False is
\* inferred boolean, with or without nulls, whatever its length.
C2_AsStated ==
    (inferred # "none" /\ ColAllBool) => inferred = "boolean"

\* C2 amended: a column is inferred boolean exactly when its storage type
\* is boolean, that is when all its values are True/False and none is null,
\* whatever its length and before any other rule (a one-row boolean column
\* is no id); True/False values with nulls are stored as objects and are
\* inferred categorical.
C2_BooleanRule ==
    inferred # "none" =>
        /\ (inferred = "boolean" <=> (ColAllBool /\ ~ColHasNull))
        /\ (ColAllBool /\ ColHasNull) => inferred = "categorical"

\* a boolean column longer than the datetime sample, inferred boolean
C2_Witness ==
    inferred = "boolean" /\ Len(s.vals) > 50

\* C3 as stated: a string-like column of which at least 70 % of the first
\* 50 non-null values parse as dates is a datetime, exactly 70 % included;
\* with an empty sample the rule does not fire.
C3_AsStated ==
    (inferred # "none" /\ s.dtype = "object") =>
        /\ (ColSampled # {}
              /\ 10 * Cardinality(ColSampledDates) >= 7 * Cardinality(ColSampled))
           => inferred = "datetime"
        /\ ColSampled = {} => inferred # "datetime"

\* C3 amended: a string-like column is a datetime exactly when the sample
\* (the first 50 non-null values in order, all when fewer) is not empty and
\* strictly more than 70 % of it parses as dates; exactly 70 % is not
\* enough; values that fail to parse only lower the share.
C3_DatetimeRule ==
    (inferred # "none" /\ s.dtype = "object") =>
        (inferred = "datetime"
            <=> (ColSampled # {}
                   /\ 10 * Cardinality(ColSampledDates) > 7 * Cardinality(ColSampled)))

\* a datetime column with more than 50 non-null values, some sampled values
\* failing to parse, and at most 70 % of the whole column parsing
C3_Witness ==
    /\ inferred = "datetime"
    /\ Cardinality(ColNonNull) > 50
    /\ ColSampledDates # ColSampled
    /\ 10 * Cardinality(ColDates) <= 7 * Cardinality(ColNonNull)

\* C4: a numeric, non-boolean column is an id when distinct / non-null
\* exceeds 0.9 (the ratio being 0 without non-null values), else
\* categorical when it has at most 20 distinct values, else numeric; with
\* no non-null value it is categorical.
C4_NumericRule ==
    (inferred # "none" /\ s.dtype \in {"int64", "float64"}) =>
        /\ inferred =
             (IF ColNonNull # {}
                  /\ 10 * Cardinality(ColDistinct) > 9 * Cardinality(ColNonNull)
              THEN "id"
              ELSE IF Cardinality(ColDistinct) <= 20 THEN "categorical"
              ELSE "numeric")
        /\ ColNonNull = {} => inferred = "categorical"

\* a numeric column whose ratio is exactly 0.9 with more than 20 distinct
\* values: not an id, not categorical
C4_Witness ==
    /\ inferred = "numeric"
    /\ s.dtype \in {"int64", "float64"}
    /\ 10 * Cardinality(ColDistinct) = 9 * Cardinality(ColNonNull)

----------------------------------------------------------------------------
(* Claims about numeric_summary and categorical_summary *)

\* C7: iqr = q3 - q1 and outlier_count counts the non-null values strictly
\* below q1 - 1.5 * iqr or strictly above q3 + 1.5 * iqr; when q1 or q3 is
\* undefined, as for an all-null column, iqr is the not-a-number sentinel
\* and outlier_count is 0.
C7_IqrOutliers ==
    num_result.status = "done" =>
        /\ ColNonNull = {} => num_result.q1.nan
        /\ IF num_result.q1.nan \/ num_result.q3.nan
           THEN num_result.iqr.nan /\ num_result.outlier_count = 0
           ELSE /\ ~num_result.iqr.nan
                /\ num_result.iqr.v = num_result.q3.v - num_result.q1.v
                /\ num_result.outlier_count =
                     Cardinality({j \in ColNonNull :
                        \/ 8 * s.vals[j].i < 2 * num_result.q1.v - 3 * num_result.iqr.v
                        \/ 8 * s.vals[j].i > 2 * num_result.q3.v + 3 * num_result.iqr.v})

\* a column with a null and an outlier
C7_Witness ==
    /\ num_result.status = "done"
    /\ ColHasNull
    /\ num_result.outlier_count = 1

\* the position at which the value labelled lab first occurs in the column
FirstSeen(lab) ==
    CHOOSE j \in ColNonNull :
        /\ IndexStr(s.vals[j]) = lab
        /\ \A m \in ColNonNull : IndexStr(s.vals[m]) = lab => j <= m

\* how often the value labelled lab occurs in the column
Occurrences(lab) == Cardinality({j \in ColNonNull : IndexStr(s.vals[j]) = lab})

ColLabels == {IndexStr(s.vals[j]) : j \in ColNonNull}

\* the part of C8 that does not depend on the order of equal counts
CatSummaryShape ==
    LET tv == cat_result.top_values
        tc == cat_result.top_counts
    IN  /\ Len(tv) = Len(tc)
        /\ Len(tv) = (IF Cardinality(ColDistinct) < 10 THEN Cardinality(ColDistinct) ELSE 10)
        /\ \A a, b \in DOMAIN tv : a # b => tv[a] # tv[b]
        /\ \A a \in DOMAIN tv : tv[a] \in ColLabels /\ tc[a] = Occurrences(tv[a])
        /\ \A a, b \in DOMAIN tv : a < b => tc[a] >= tc[b]
        /\ \A lab \in ColLabels \ Range(tv) : \A a \in DOMAIN tv : Occurrences(lab) <= tc[a]
        /\ cat_result.unique = Cardinality(ColDistinct)
        /\ ColNonNull = {} => (tv = <<>> /\ tc = <<>> /\ cat_result.unique = 0)

\* C8 as stated: the shape above, and values of equal count are listed in
\* the order in which they are first encountered.
C8_AsStated ==
    cat_result.status = "done" =>
        /\ CatSummaryShape
        /\ \A a, b \in DOMAIN cat_result.top_values :
              (a < b /\ cat_result.top_counts[a] = cat_result.top_counts[b])
                 => FirstSeen(cat_result.top_values[a]) < FirstSeen(cat_result.top_values[b])

\* C8 amended: at most 10 distinct non-null values with their counts, in
\* non-increasing order of count, none left out having a higher count than
\* one returned; unique is the number of distinct non-null values; an
\* all-null column gives empty lists and 0.  The order among values of
\* equal count, and which of them fill the last places, is not fixed.
C8_TopValues ==
    cat_result.status = "done" => CatSummaryShape

\* more than 10 distinct values, and two of equal count returned against
\* the order in which they were first encountered
C8_Witness ==
    /\ cat_result.status = "done"
    /\ Cardinality(ColDistinct) > 10
    /\ \E a, b \in DOMAIN cat_result.top_values :
          /\ a < b
          /\ cat_result.top_counts[a] = cat_result.top_counts[b]
          /\ FirstSeen(cat_result.top_values[a]) > FirstSeen(cat_result.top_values[b])

----------------------------------------------------------------------------
(* Preprocessing: SpecPrep *)

InitPrep ==
    /\ df \in PrepTables
    /\ target_col \in Targets
    /\ overrides \in OverrideDicts(PrepOverrideValues)
    /\ prep = NoPrep
    /\ profile = NoProfile
    /\ dropped = {}
    /\ IdleTask /\ IdleInfer /\ IdleSummaries
    /\ IdleApi

BuildPreprocessor ==
    /\ prep.status = "none"
    /\ prep' = build_preprocessor(df, target_col, overrides)
    /\ df' = caller_table_after(df, target_col, overrides)
    /\ UNCHANGED api_vars
    /\ UNCHANGED <<y, task_type, s, inferred, num_result, cat_result,
                   overrides, profile, dropped, target_col>>

NextPrep == BuildPreprocessor

SpecPrep == InitPrep /\ [][NextPrep]_vars

----------------------------------------------------------------------------
(* One modeling request on one registered dataset: SpecModel *)

base_vars == <<y, task_type, s, inferred, num_result, cat_result, df, overrides,
               profile, dropped, target_col, prep, eda>>

\* the handler of POST /api/model/{dataset_id} for request rq, the library
\* giving ev
RunModeling(dataset_id, rq, ev) ==
    \E out \in {run_modeling(DATASETS, files, dataset_id, rq, ev)} :
        /\ req' = rq
        /\ env' = ev
        /\ response' = out.response
        /\ DATASETS' = out.DATASETS
        /\ last_ok' = IF out.response.status = 200
                      THEN Put(last_ok, dataset_id, out.response.body)
                      ELSE last_ok
        /\ UNCHANGED files
        /\ UNCHANGED base_vars

InitModel ==
    /\ \E t \in ModelTables :
          LET up == upload_dataset(<<>>, <<>>, 1, "table", t)
          IN  DATASETS = up.DATASETS /\ files = up.files
    /\ req \in ModelRequests
    /\ env \in Envs
    /\ response = NoResponse
    /\ last_ok = <<>>
    /\ eda = <<>>
    /\ IdleTask /\ IdleInfer /\ IdleSummaries /\ IdleTable /\ IdlePrep

ModelOnce ==
    /\ response = NoResponse
    /\ RunModeling(1, req, env)

NextModel == ModelOnce

SpecModel == InitModel /\ [][NextModel]_vars

----------------------------------------------------------------------------
(* Requests in any order on the registry: SpecApi *)

InitApi ==
    /\ DATASETS = <<>>
    /\ files = <<>>
    /\ req = NoRequest
    /\ env = NoEnv
    /\ response = NoResponse
    /\ last_ok = <<>>
    /\ eda = <<>>
    /\ IdleTask /\ IdleInfer /\ IdleSummaries /\ IdleTable /\ IdlePrep

UploadDataset ==
    \E dataset_id \in DatasetIds \ (DOMAIN DATASETS \cup DOMAIN files) :
    \E kind \in {"not_csv", "unparsable", "table"}, t \in ApiTables :
    \E out \in {upload_dataset(DATASETS, files, dataset_id, kind, t)} :
        /\ response' = out.response
        /\ DATASETS' = out.DATASETS
        /\ files' = out.files
        /\ UNCHANGED <<req, env, last_ok>>
        /\ UNCHANGED base_vars

RunEda ==
    \E dataset_id \in DatasetIds, ov \in ApiOverrides :
    \E out \in compute_eda(DATASETS, files, dataset_id, ov) :
        /\ response' = out.response
        /\ DATASETS' = out.DATASETS
        /\ UNCHANGED <<files, req, env, last_ok>>
        /\ UNCHANGED base_vars

ModelRequest ==
    \E dataset_id \in DatasetIds, rq \in ApiRequests, ev \in ApiEnvs :
        RunModeling(dataset_id, rq, ev)

GetInsights ==
    \E dataset_id \in DatasetIds :
        /\ response' = get_insights(DATASETS, files, dataset_id)
        /\ UNCHANGED <<DATASETS, files, req, env, last_ok>>
        /\ UNCHANGED base_vars

GetReport ==
    \E dataset_id \in DatasetIds, format \in {"html", "pdf", "docx"} :
        /\ response' = get_report(DATASETS, files, dataset_id, format)
        /\ UNCHANGED <<DATASETS, files, req, env, last_ok>>
        /\ UNCHANGED base_vars

ResetServer ==
    /\ response' = reset_server.response
    /\ DATASETS' = reset_server.DATASETS
    /\ files' = reset_server.files
    /\ last_ok' = <<>>
    /\ UNCHANGED <<req, env>>
    /\ UNCHANGED base_vars

NextApi ==
    \/ UploadDataset
    \/ RunEda
    \/ ModelRequest
    \/ GetInsights
    \/ GetReport
    \/ ResetServer

SpecApi == InitApi /\ [][NextApi]_vars

----------------------------------------------------------------------------
(* Two EDA requests on one dataset, in flight together: SpecRace.  The     *)
(* handlers are plain functions, which the server runs on worker threads,  *)
(* so the statements of _compute_eda of two requests interleave.  eda[r]   *)
(* holds the position of request r (the statement it runs next), its       *)
(* overrides and its local profile.                                        *)

EdaRequests == {1, 2}

RaceOverrides ==
    {<<>>, [x \in {"a"} |-> "categorical"], [x \in {"a"} |-> "id"]}

InitRace ==
    /\ \E t \in ApiTables :
          LET up == upload_dataset(<<>>, <<>>, 1, "table", t)
          IN  DATASETS = up.DATASETS /\ files = up.files
    /\ \E ov \in [EdaRequests -> RaceOverrides] :
          /\ ov[1] # ov[2]
          /\ eda = [r \in EdaRequests |->
                      [pc |-> "lookup", dataset_id |-> 1, overrides |-> ov[r],
                       profile |-> NoProfile]]
    /\ req = NoRequest
    /\ env = NoEnv
    /\ response = NoResponse
    /\ last_ok = <<>>
    /\ IdleTask /\ IdleInfer /\ IdleSummaries /\ IdleTable /\ IdlePrep

race_frame == <<y, task_type, s, inferred, num_result, cat_result, df, overrides,
                profile, dropped, target_col, prep, files, req, env, last_ok>>

\* meta = DATASETS.get(dataset_id); 404 when there is none
EdaLookup(r) ==
    /\ eda[r].pc = "lookup"
    /\ IF eda[r].dataset_id \in DOMAIN DATASETS
       THEN /\ eda' = [eda EXCEPT ![r].pc = "profile"]
            /\ UNCHANGED response
       ELSE /\ eda' = [eda EXCEPT ![r].pc = "done"]
            /\ response' = Response("eda", eda[r].dataset_id, 404, NoBody)
    /\ UNCHANGED DATASETS
    /\ UNCHANGED race_frame

\* df = pd.read_csv(path); profile = profile_dataset(df, overrides=overrides)
EdaProfile(r) ==
    /\ eda[r].pc = "profile"
    /\ IF eda[r].dataset_id \notin DOMAIN files \/ files[eda[r].dataset_id] = BadFile
       THEN /\ eda' = [eda EXCEPT ![r].pc = "done"]
            /\ response' = Response("eda", eda[r].dataset_id, 500, NoBody)
       ELSE /\ \E pr \in profile_dataset(files[eda[r].dataset_id], eda[r].overrides) :
                  eda' = [eda EXCEPT ![r].pc = "store_overrides", ![r].profile = pr]
            /\ UNCHANGED response
    /\ UNCHANGED DATASETS
    /\ UNCHANGED race_frame

\* meta["overrides"] = overrides or {}
EdaStoreOverrides(r) ==
    /\ eda[r].pc = "store_overrides"
    /\ DATASETS' = [DATASETS EXCEPT ![eda[r].dataset_id].overrides = eda[r].overrides]
    /\ eda' = [eda EXCEPT ![r].pc = "store_profile"]
    /\ UNCHANGED response
    /\ UNCHANGED race_frame

\* meta["last_profile"] = profile; return
EdaStoreProfile(r) ==
    /\ eda[r].pc = "store_profile"
    /\ DATASETS' = [DATASETS EXCEPT ![eda[r].dataset_id].last_profile = eda[r].profile]
    /\ eda' = [eda EXCEPT ![r].pc = "done"]
    /\ response' = Response("eda", eda[r].dataset_id, 200, eda[r].profile)
    /\ UNCHANGED race_frame

NextRace ==
    \/ \E r \in EdaRequests : EdaLookup(r)
    \/ \E r \in EdaRequests : EdaProfile(r)
    \/ \E r \in EdaRequests : EdaStoreOverrides(r)
    \/ \E r \in EdaRequests : EdaStoreProfile(r)

SpecRace == InitRace /\ [][NextRace]_vars

----------------------------------------------------------------------------
(* Claims about profile_dataset *)

Profiled == profile.status = "done"

\* the summary keys that go with an effective type
KeysFor(col_type) ==
    IF col_type = "numeric" THEN {"numeric_summary"}
    ELSE IF col_type \in {"categorical", "boolean"} THEN {"categorical_summary"}
    ELSE IF col_type = "datetime" THEN {"datetime_summary"}
    ELSE {}

\* C5: effective_type is the override where one is supplied for the column,
\* even against the inferred type, and the inferred type otherwise;
\* inferred_type is what the values alone give; the summary follows the
\* effective type.
C5_OverridePrecedence ==
    Profiled =>
        \A j \in DOMAIN profile.columns :
            LET ci == profile.columns[j].value
                nm == df.cols[j].name
            IN  /\ ci.effective_type =
                     (IF nm \in DOMAIN overrides THEN overrides[nm] ELSE ci.inferred_type)
                /\ ci.inferred_type = infer_column_type(df.cols[j].col)
                /\ (nm \in DOMAIN overrides /\ overrides[nm] # ci.inferred_type)
                      => DOMAIN ci.summaries = KeysFor(overrides[nm])

\* a column inferred id, forced to categorical, with a categorical summary
C5_Witness ==
    /\ Profiled
    /\ \E j \in DOMAIN profile.columns :
          /\ profile.columns[j].value.inferred_type = "id"
          /\ profile.columns[j].value.effective_type = "categorical"
          /\ DOMAIN profile.columns[j].value.summaries = {"categorical_summary"}

\* C6: a column profile carries at most one summary, the one of its
\* effective type: numeric_summary iff numeric, categorical_summary iff
\* categorical or boolean, datetime_summary iff datetime, none for id, text
\* and unknown.
C6_OneSummary ==
    Profiled =>
        \A j \in DOMAIN profile.columns :
            LET ci == profile.columns[j].value
                keys == DOMAIN ci.summaries
            IN  /\ Cardinality(keys) <= 1
                /\ keys \subseteq {"numeric_summary", "categorical_summary", "datetime_summary"}
                /\ "numeric_summary" \in keys <=> ci.effective_type = "numeric"
                /\ "categorical_summary" \in keys
                      <=> ci.effective_type \in {"categorical", "boolean"}
                /\ "datetime_summary" \in keys <=> ci.effective_type = "datetime"
                /\ ci.effective_type \in {"id", "text", "unknown"} => keys = {}

\* a profile with a boolean column carrying a categorical summary and a
\* column inferred datetime, forced to text, carrying none
C6_Witness ==
    /\ Profiled
    /\ \E a, b \in DOMAIN profile.columns :
          /\ profile.columns[a].value.effective_type = "boolean"
          /\ DOMAIN profile.columns[a].value.summaries = {"categorical_summary"}
          /\ profile.columns[b].value.inferred_type = "datetime"
          /\ profile.columns[b].value.effective_type = "text"
          /\ DOMAIN profile.columns[b].value.summaries = {}

\* C9: 'columns' and 'missing_by_column' have exactly the table's column
\* names as keys, in column order, n_cols is their number, and no column
\* dropped from the table is mentioned by a profile computed afterwards.
C9_ProfileKeys ==
    Profiled =>
        /\ profile.n_cols = Len(df.cols)
        /\ Len(profile.columns) = Len(df.cols)
        /\ Len(profile.missing.missing_by_column) = Len(df.cols)
        /\ \A j \in DOMAIN df.cols :
              /\ profile.columns[j].key = df.cols[j].name
              /\ profile.columns[j].value.name = df.cols[j].name
              /\ profile.missing.missing_by_column[j].key = df.cols[j].name
        /\ \A d \in dropped :
              /\ \A j \in DOMAIN profile.columns :
                    profile.columns[j].key # d /\ profile.columns[j].value.name # d
              /\ \A j \in DOMAIN profile.missing.missing_by_column :
                    profile.missing.missing_by_column[j].key # d

\* a profile computed after column "a", which the overrides still name, was
\* dropped from a table that began with "b", "a"
C9_Witness ==
    /\ Profiled
    /\ dropped = {"a"}
    /\ "a" \in DOMAIN overrides
    /\ Len(profile.columns) = 1
    /\ profile.columns[1].key = "b"

----------------------------------------------------------------------------
(* Claims about build_preprocessor *)

Built == prep.status = "ok"

InNumeric(col) == \E r \in DOMAIN prep.numeric_features : prep.numeric_features[r] = col
InCategorical(col) ==
    \E r \in DOMAIN prep.categorical_features : prep.categorical_features[r] = col

NoRepeat(q) == \A a, b \in DOMAIN q : a # b => q[a] # q[b]

\* C10: every non-target column gets exactly one outcome: the numeric role
\* for override numeric; the categorical role for categorical or boolean;
\* neither for id, text or datetime; with no override or one outside the
\* vocabulary, the numeric role for numeric storage and the categorical role
\* otherwise.  The target is in neither list and no column is in both.
C10_RoleResolution ==
    Built =>
        /\ \A j \in DOMAIN df.cols :
              LET col == df.cols[j].name
                  has == col \in DOMAIN overrides
                  numRole == InNumeric(col) /\ ~InCategorical(col)
                  catRole == InCategorical(col) /\ ~InNumeric(col)
                  excluded == ~InNumeric(col) /\ ~InCategorical(col)
              IN  col # target_col =>
                    IF has /\ overrides[col] = "numeric" THEN numRole
                    ELSE IF has /\ overrides[col] \in {"categorical", "boolean"} THEN catRole
                    ELSE IF has /\ overrides[col] \in {"id", "text", "datetime"} THEN excluded
                    ELSE IF df.cols[j].col.dtype \in {"int64", "float64", "bool"} THEN numRole
                    ELSE catRole
        /\ ~InNumeric(target_col) /\ ~InCategorical(target_col)
        /\ \A r \in DOMAIN prep.numeric_features : ~InCategorical(prep.numeric_features[r])
        /\ NoRepeat(prep.numeric_features) /\ NoRepeat(prep.categorical_features)
        /\ \A col \in Names :
              InNumeric(col) \/ InCategorical(col)
                 => \E j \in DOMAIN df.cols : df.cols[j].name = col

\* a string column whose override is outside the vocabulary lands in the
\* categorical list, beside a column without override in the numeric list
C10_Witness ==
    /\ Built
    /\ \E a, b \in DOMAIN df.cols :
          /\ df.cols[a].name \in DOMAIN overrides
          /\ overrides[df.cols[a].name] = "unknown"
          /\ df.cols[a].col.dtype = "object"
          /\ InCategorical(df.cols[a].name)
          /\ df.cols[b].name \notin DOMAIN overrides
          /\ df.cols[b].col.dtype = "bool"
          /\ InNumeric(df.cols[b].name)

\* a column whose override is datetime is left out although its storage is
\* numeric
C10_WitnessExcluded ==
    /\ Built
    /\ \E a \in DOMAIN df.cols :
          /\ df.cols[a].name \in DOMAIN overrides
          /\ overrides[df.cols[a].name] = "datetime"
          /\ df.cols[a].col.dtype = "int64"
          /\ ~InNumeric(df.cols[a].name) /\ ~InCategorical(df.cols[a].name)

\* C12: a call of build_preprocessor leaves the caller's table as it was:
\* whenever the result appears, every column of df, the numeric-role ones
\* included, holds the values it held before.
C12_CallerTableKept == [][prep' # prep => df' = df]_vars

\* a string column given the numeric role: in the returned X it has become
\* all missing, in the caller's table it still holds its strings
C12_Witness ==
    /\ Built
    /\ \E j \in DOMAIN df.cols :
          LET col == df.cols[j].name
          IN  /\ InNumeric(col)
              /\ df.cols[j].col.dtype = "object"
              /\ \E r \in DOMAIN df.cols[j].col.vals : df.cols[j].col.vals[r].k = "str"
              /\ ColumnOf(prep.X, col).dtype = "float64"
              /\ \A r \in DOMAIN ColumnOf(prep.X, col).vals :
                    isna(ColumnOf(prep.X, col).vals[r])

----------------------------------------------------------------------------
(* Claims about run_baseline_models *)

Answered == response.op = "model" /\ response.status = 200
Result == response.body
\* the table and target column of the request
Table == files[response.dataset_id]
TargetColumn == ColumnOf(Table, req.target)
\* position of the candidate named key in the result's models, 0 if none
PositionOf(key) ==
    IF \E j \in DOMAIN Result.models : Result.models[j].key = key
    THEN CHOOSE j \in DOMAIN Result.models : Result.models[j].key = key
    ELSE 0
MetricsAt(j) == Result.models[j].value.metrics

\* C13: a returned result has in 'models' exactly the roster of its task
\* type, once each and in roster order: logreg, rf, gb for classification,
\* linreg, rf, gb for regression, every entry with its metrics.
C13_RosterKeys ==
    Answered =>
        /\ [j \in DOMAIN Result.models |-> Result.models[j].key]
              = (IF Result.task_type = "classification"
                 THEN <<"logreg", "rf", "gb">> ELSE <<"linreg", "rf", "gb">>)
        /\ \A j \in DOMAIN Result.models :
              /\ DOMAIN MetricsAt(j) # {}
              /\ Result.models[j].value.class_name
                    \in (IF Result.task_type = "classification"
                         THEN {"LogisticRegression", "RandomForestClassifier",
                               "GradientBoostingClassifier"}
                         ELSE {"LinearRegression", "RandomForestRegressor",
                               "GradientBoostingRegressor"})

\* a classification result on the two-class integer target
C13_Witness ==
    /\ Answered
    /\ Result.task_type = "classification"
    /\ TargetColumn.dtype = "int64"
    /\ Len(Result.models) = 3

\* the score the claims rank by
ScoreAt(j) ==
    IF Result.task_type = "classification" THEN MetricsAt(j)["f1_macro"]
    ELSE 0 - MetricsAt(j)["rmse"]

\* C14: the winner has the highest score of the roster (macro-F1, or
\* -RMSE), is the earliest of those that share it, and the top-level metrics
\* and best_model_class are those of its entry in 'models'.
C14_Winner ==
    Answered =>
        LET b == PositionOf(Result.best_model)
        IN  /\ b # 0
            /\ \A j \in DOMAIN Result.models : ScoreAt(j) <= ScoreAt(b)
            /\ \A j \in DOMAIN Result.models : j < b => ScoreAt(j) < ScoreAt(b)
            /\ Result.metrics = MetricsAt(b)
            /\ Result.best_model_class = Result.models[b].value.class_name

\* the first and the last candidate share the highest score, the first wins
C14_Witness ==
    /\ Answered
    /\ Result.best_model \in {"logreg", "linreg"}
    /\ ScoreAt(1) = ScoreAt(3)
    /\ ScoreAt(2) < ScoreAt(1)

\* the candidate at position b is the first of those with the highest
\* value of metric
RankedFirstBy(metric, b) ==
    /\ b # 0
    /\ \A j \in DOMAIN Result.models : MetricsAt(j)[metric] <= MetricsAt(b)[metric]
    /\ \A j \in DOMAIN Result.models : j < b => MetricsAt(j)[metric] < MetricsAt(b)[metric]

\* C15: in a classification run the winner is picked by accuracy when the
\* request's optimize_metric asks for accuracy, and by macro-F1 otherwise.
C15_AsStated ==
    (Answered /\ Result.task_type = "classification") =>
        RankedFirstBy(IF req.optimize_metric = "accuracy" THEN "accuracy" ELSE "f1_macro",
                      PositionOf(Result.best_model))

\* C16: when the request asks for tuning, the fitted and evaluated
\* candidates carry the hyperparameters a search of tuning_trials trials
\* found; when it does not, the roster defaults.
C16_AsStated ==
    Answered =>
        Result.best_model_params =
            (IF req.tune_hyperparameters THEN tune_model(req.tuning_trials).params
             ELSE "roster")

\* C17: with a binary target (two probability columns) every candidate's
\* ROC-AUC is the one computed from the positive-class column, stored as
\* roc_auc, and the whole matrix is not scored one-vs-rest; with more than
\* two classes the one-vs-rest score of the matrix is what may be stored.
C17_AsStated ==
    (Answered /\ Result.task_type = "classification") =>
        \A j \in DOMAIN Result.models :
            IF Cardinality(classes_of(TargetColumn)) = 2
            THEN "roc_auc" \in DOMAIN MetricsAt(j) /\ "roc_auc_ovr" \notin DOMAIN MetricsAt(j)
            ELSE "roc_auc" \notin DOMAIN MetricsAt(j)

\* a modeling request on a single-class classification target, with at
\* least one feature and no library failure beside those of a single class
SingleClassRun ==
    /\ response.op = "model"
    /\ response.dataset_id \in DOMAIN files
    /\ req.target \in column_names(Table)
    /\ req.overrides = <<>>
    /\ env.fail_at = 0
    /\ detect_task_type(TargetColumn) = "classification"
    /\ Cardinality(classes_of(TargetColumn)) = 1

\* C18: a classification run on a single-class target returns a result in
\* which every candidate has accuracy and macro-F1 and no ROC-AUC; and in
\* any classification result every candidate has accuracy and macro-F1.
C18_AsStated ==
    /\ SingleClassRun =>
          /\ Answered
          /\ Len(Result.models) = 3
          /\ \A j \in DOMAIN Result.models :
                DOMAIN MetricsAt(j) = {"accuracy", "f1_macro"}
    /\ (Answered /\ Result.task_type = "classification") =>
          \A j \in DOMAIN Result.models :
              {"accuracy", "f1_macro"} \subseteq DOMAIN MetricsAt(j)

\* the expanded feature names of the run: the returned X is the table
\* without its target, the role lists are in the result
ExpandedNames ==
    get_feature_names_out(drop_column(Table, req.target), Result.preprocessing)

TreeEnsembles ==
    {"RandomForestClassifier", "RandomForestRegressor",
     "GradientBoostingClassifier", "GradientBoostingRegressor"}

\* C19: feature_importances is present only when the winner is a model with
\* native importances (a tree ensemble); it then lists every expanded
\* feature once with the importance the winner gives it, in non-increasing
\* order of importance; when the winner has no such signal, or reading it
\* fails, it is absent and the result is returned all the same.
C19_Importances ==
    Answered =>
        LET fi == Result.feature_importances
            b == PositionOf(Result.best_model)
        IN  /\ ~fi.none =>
                  /\ Result.best_model_class \in TreeEnsembles
                  /\ Len(fi.list) = Len(ExpandedNames)
                  /\ \A j \in DOMAIN ExpandedNames :
                        Cardinality({r \in DOMAIN fi.list :
                            /\ fi.list[r].feature = ExpandedNames[j]
                            /\ fi.list[r].importance = (env.imp[b] * j) % 3}) = 1
                  /\ \A q, r \in DOMAIN fi.list :
                        q < r => fi.list[q].importance >= fi.list[r].importance
            /\ fi.none => fi.list = <<>>
            /\ Result.best_model_class \notin TreeEnsembles => fi.none
            /\ env.fi_raises => fi.none

\* the winner is the gradient-boosted model, the random forest's importances
\* differ from its own, and its list of three or more falls strictly somewhere
C19_Witness ==
    /\ Answered
    /\ Result.best_model = "gb"
    /\ env.imp[2] # env.imp[3]
    /\ ~Result.feature_importances.none
    /\ Len(Result.feature_importances.list) >= 3
    /\ \E q \in DOMAIN Result.feature_importances.list :
          /\ q + 1 \in DOMAIN Result.feature_importances.list
          /\ Result.feature_importances.list[q].importance
                > Result.feature_importances.list[q + 1].importance

\* the winner is the linear model: no importances, and a result all the same
C19_WitnessAbsent ==
    /\ Answered
    /\ Result.best_model \in {"logreg", "linreg"}
    /\ Result.feature_importances.none

\* a modeling request in which preprocessing and the split succeed and
\* every candidate of the roster is fitted and scored
AllCandidatesScored ==
    /\ response.op = "model"
    /\ response.dataset_id \in DOMAIN files
    /\ Table # BadFile
    /\ LET p == build_preprocessor(Table, req.target, req.overrides)
       IN  /\ p.status = "ok"
           /\ LET task == detect_task_type(p.y)
                  meta == [numeric_features |-> p.numeric_features,
                           categorical_features |-> p.categorical_features]
                  roster == get_candidate_models(task)
              IN  /\ train_test_split(p.y, req.test_size, task = "classification") = "ok"
                  /\ Len(roster) > 0
                  /\ LET st == loop_state(task, p.y, meta, env, Len(roster))
                     IN  /\ st.err = "none"
                         /\ Len(st.results_per_model) = Len(roster)

\* C22: when every candidate of the roster fits and is scored, the run
\* returns a result whose best_model is one of the roster keys, however large
\* the errors of the candidates are; the run never ends with 'No best model
\* was selected'.
C22_AsStated ==
    AllCandidatesScored =>
        /\ run_baseline_models(Table, req.target, req.overrides, req.test_size,
                               env).status # "RuntimeError"
        /\ Answered
        /\ Result.best_model \in {"logreg", "linreg", "rf", "gb"}

\* C23: in every result, n_features is the number of columns routed to
\* modeling: the length of preprocessing.numeric_features plus the length of
\* preprocessing.categorical_features, the columns an 'id', 'text' or
\* 'datetime' override excludes not being counted.
C23_AsStated ==
    Answered =>
        Result.n_features = Len(Result.preprocessing.numeric_features)
                            + Len(Result.preprocessing.categorical_features)

----------------------------------------------------------------------------
(* Claims about the endpoints *)

\* the modeling result cached for dataset d
Cached(d) == DATASETS[d].modeling

\* C11: a modeling request whose target is not a column of the dataset's
\* table is answered with a client error (400), build_preprocessor and
\* run_baseline_models raise on it whatever the library would do, and the
\* step leaves the registry, the cached modeling result included, as it was.
C11_MissingTarget ==
    [][(/\ response'.op = "model"
        /\ response'.dataset_id \in DOMAIN DATASETS
        /\ response'.dataset_id \in DOMAIN files
        /\ files[response'.dataset_id] # BadFile
        /\ req'.target \notin column_names(files[response'.dataset_id]))
       => /\ response'.status = 400
          /\ response'.body = NoBody
          /\ DATASETS' = DATASETS
          /\ build_preprocessor(files[response'.dataset_id], req'.target,
                                req'.overrides).status = "ValueError"
          /\ run_baseline_models(files[response'.dataset_id], req'.target,
                                 req'.overrides, req'.test_size, env').status
                = "ValueError"]_vars

\* a request for the absent column c was refused with 400 while the dataset
\* keeps the result of an earlier run
C11_Witness ==
    /\ response.op = "model"
    /\ response.status = 400
    /\ response.dataset_id \in DOMAIN DATASETS
    /\ req.target = "c"
    /\ "c" \notin column_names(files[response.dataset_id])
    /\ Cached(response.dataset_id).status = "ok"

\* C20: the modeling result cached for a registered dataset is the body of
\* the last successful modeling response for it, none if there was none; it
\* is always a whole result; after a reset nothing is registered or stored.
C20_CacheIsLastSuccess ==
    /\ \A d \in DOMAIN DATASETS :
          /\ Cached(d) = (IF d \in DOMAIN last_ok THEN last_ok[d] ELSE NoModeling)
          /\ Cached(d) # NoModeling =>
                /\ Cached(d).status = "ok"
                /\ Len(Cached(d).models) = 3
                /\ Cached(d).metrics
                      = Cached(d).models[CHOOSE j \in 1..3 :
                            Cached(d).models[j].key = Cached(d).best_model].value.metrics
    /\ response.op = "reset" => DATASETS = <<>> /\ files = <<>>

\* after a successful run, a run on the same dataset failed and an EDA pass
\* followed: the first run's result is still the one cached
C20_Witness ==
    /\ response.op = "eda"
    /\ response.status = 200
    /\ env.fail_at # 0
    /\ req.target = "b"
    /\ Cached(response.dataset_id).status = "ok"
    /\ DATASETS[response.dataset_id].last_profile.status = "done"

----------------------------------------------------------------------------
(* Claims about concurrent EDA requests *)

BothCompleted == \A r \in EdaRequests : r \in DOMAIN eda /\ eda[r].pc = "done"

\* C21: once two concurrent EDA requests for one dataset with different
\* overrides have both completed, the cached overrides and the cached
\* last_profile are those of one and the same request, so the cached profile
\* is one computed with the cached overrides.
C21_AsStated ==
    BothCompleted =>
        /\ \E r \in EdaRequests :
              /\ DATASETS[1].overrides = eda[r].overrides
              /\ DATASETS[1].last_profile = eda[r].profile
        /\ DATASETS[1].last_profile
              \in profile_dataset(files[1], DATASETS[1].overrides)

====
